---- MODULE Spec2Model ----
(***************************************************************************)
(* Model of the remote-generation orchestration of motioncraft             *)
(* (src/services/geminiService.ts): the backoff retrier withRetry, the     *)
(* operation poller pollForVideo, the asset fetcher fetchVideoBlob,        *)
(* generateTextVideo, generateTextImage and generateStyleSuggestion; the   *)
(* transcoder createGifFromVideo; and the App's startProcess and reset.    *)
(* Strings the code inspects with String.includes are sequences of         *)
(* one-character strings; time is in milliseconds.                         *)
(***************************************************************************)
EXTENDS Integers, Sequences, FiniteSets, TLC

VARIABLES
  entry,        \* the function under execution: "withRetry", "pollForVideo", "generateTextVideo", ...
  pc,           \* the await (or statement) the execution stands at
  ctx,          \* the fn wrapped by the current withRetry call
  retries,      \* withRetry: parameter retries of the current (recursive) call
  baseDelay,    \* withRetry: parameter baseDelay of the current (recursive) call
  retries0,     \* withRetry: retries of the outermost call
  baseDelay0,   \* withRetry: baseDelay of the outermost call
  calls,        \* withRetry: invocations of fn since the outermost call
  sleeps,       \* withRetry: the delays passed to sleep since the outermost call
  lastErr,      \* withRetry / pollForVideo: the failure of the last failed attempt
  failed,       \* the attempt (remote call) awaited last threw
  now,          \* Date.now()
  startTime,    \* pollForVideo: startTime
  op,           \* pollForVideo: op, the last operation snapshot
  iters,        \* pollForVideo: sleeps of the poll interval begun
  transients,   \* pollForVideo: status checks that failed transient, counted while no check
                \* has answered not done and they are at most MaxCounted; -1 after that
  net,          \* remote calls issued: submissions, status checks, downloads
  imageBase64,  \* generateTextVideo: parameter imageBase64
  result,       \* how the function under execution ended
  referenceImage, \* generateTextImage: option referenceImage
  sent,         \* generateTextImage: the parts of each generateContent request issued
  imageResult,  \* generateTextImage: the { data, mimeType } returned
  received,     \* generateTextImage on its own: the parts of the last response
  style,        \* generateStyleSuggestion: the string returned
  rnd,          \* getRandomStyle: the draw of Math.random(), in steps of 1 / RandSteps
  reply,        \* generateStyleSuggestion: response.text
  duration,     \* createGifFromVideo: video.duration in milliseconds, NaN when unknown
  seekSettles,  \* createGifFromVideo: the video answers a seek with a seeked event
  videoState,   \* createGifFromVideo: the video element: "none", "loading", "loaded", "error"
  totalFrames,  \* createGifFromVideo: totalFrames
  i,            \* createGifFromVideo: the loop index i
  seeks,        \* createGifFromVideo: the values assigned to video.currentTime, in milliseconds
  frames,       \* createGifFromVideo: the index i of each frame passed to gif.writeFrame
  finished,     \* createGifFromVideo: gif.finish() was called
  seeking,      \* createGifFromVideo: the video has a seek in progress
  timer,        \* createGifFromVideo: the time the pending seek timeout fires at, or NoTimer
  listeners,    \* createGifFromVideo: seeked listeners registered on the video
  lateFrames,   \* createGifFromVideo: a frame was written after the promise was settled
  videoWidth,   \* createGifFromVideo: video.videoWidth
  videoHeight,  \* createGifFromVideo: video.videoHeight
  width,        \* createGifFromVideo: const width
  height,       \* createGifFromVideo: let height
  canvas,       \* createGifFromVideo: canvas.width and canvas.height
  frameSizes,   \* createGifFromVideo: the width and height given to gif.writeFrame
  inFlight,     \* the remote calls issued and not yet answered, in the order issued
  jobs,         \* the video jobs the service has created for the submissions received
  apiKey,       \* process.env.API_KEY, the credentials numbered in the order they are set
  ai,           \* the apiKey of the client `ai` of generateTextVideo, then of pollForVideo
  lastCall,     \* the credential of the last remote call issued, and process.env.API_KEY then
  state,        \* App: state, an AppState
  videoSrc,     \* App: videoSrc, an object URL or Null
  imageSrc,     \* App: imageSrc, a data URL or Null
  statusMessage, \* App: statusMessage
  showKeyDialog, \* App: showKeyDialog
  sessions,     \* App: the invocations of startProcess: where each stands, the videoSrc it saw
  created,      \* the object URLs made by URL.createObjectURL in fetchVideoBlob
  revoked,      \* the object URLs passed to URL.revokeObjectURL
  discarded,    \* App: reset was invoked with a session outstanding, and no submit since
  stored,       \* history: localStorage has an entry under HISTORY_STORAGE_KEY
  storage,      \* history: the array serialized in that entry
  saves,        \* history: the calls of saveToHistory made
  events,       \* history: the calls made that were not plain saves of a blob: video
  call          \* history: the last call: its name, its arguments, whether it stored

imgVars == << referenceImage, sent, imageResult, received >>

styleVars == << style, rnd, reply >>

gifVars ==
  << duration, videoWidth, videoHeight, seekSettles, videoState, width, height, canvas,
     totalFrames, i, seeks, frames, frameSizes, finished, seeking, timer, listeners,
     lateFrames >>

appVars ==
  << state, videoSrc, imageSrc, statusMessage, showKeyDialog, sessions, created, revoked,
     discarded >>

histVars == << stored, storage, saves, events, call >>

\* the state of the components other than withRetry and the video functions
outside == << styleVars, gifVars, appVars, histVars >>

vars ==
  << entry, pc, ctx, retries, baseDelay, retries0, baseDelay0, calls, sleeps,
     lastErr, failed, now, startTime, op, iters, transients, net,
     imageBase64, result, imgVars, styleVars, gifVars, inFlight, jobs, apiKey, ai,
     lastCall, appVars, histVars >>

(***************************************************************************)
(* Bounds of the model.                                                    *)
(***************************************************************************)
MaxRetries == 3
MaxLatency == 30000
MaxOvershoot == 10000
MaxCounted == 3
MaxParts == 2
RandSteps == 26
MaxDuration == 350
MaxSessions == 3
MaxKeyChanges == 1
MaxSaves == 22
MaxEvents == 2

(***************************************************************************)
(* Program constants.                                                      *)
(***************************************************************************)
DefaultRetries == 3
DefaultBaseDelay == 3000
MAX_WAIT_TIME == 300000
PollInterval == 10000
FetchRetries == 2
FetchBaseDelay == 2000

(***************************************************************************)
(* Strings.                                                                *)
(***************************************************************************)
Needle503 ==
  <<"5","0","3">>
NeedleDeadline ==
  <<"D","e","a","d","l","i","n","e"," ","e","x","p","i","r","e","d">>
NeedleUnavailable ==
  <<"U","N","A","V","A","I","L","A","B","L","E">>
Needle429 ==
  <<"4","2","9">>
MsgHttp503 ==
  <<"H","T","T","P"," ","5","0","3">>
MsgDeadline ==
  <<"D","e","a","d","l","i","n","e"," ","e","x","p","i","r","e","d",".">>
MsgRate ==
  <<"4","2","9"," ","s","l","o","w">>
MsgLower ==
  <<"U","n","a","v","a","i","l","a","b","l","e">>
Msg400 ==
  <<"4","0","0">>
MsgQuota ==
  <<"q","u","o","t","a">>
MsgTimedOut ==
  <<"V","i","d","e","o"," ","g","e","n","e","r","a","t","i","o","n"," ","t","i","m","e","d"," ","o","u","t","."," ","P","l","e","a","s","e"," ","t","r","y"," ","a","g","a","i","n",".">>
MsgNoImage ==
  <<"I","m","a","g","e"," ","g","e","n","e","r","a","t","i","o","n"," ","f","a","i","l","e","d",","," ","c","a","n","n","o","t"," ","g","e","n","e","r","a","t","e"," ","v","i","d","e","o",".">>
MsgInternal ==
  <<"T","h","e"," ","v","i","d","e","o"," ","g","e","n","e","r","a","t","i","o","n"," ","s","e","r","v","i","c","e"," ","e","n","c","o","u","n","t","e","r","e","d"," ","a","n"," ","i","n","t","e","r","n","a","l"," ","e","r","r","o","r",".">>
MsgUnable ==
  <<"U","n","a","b","l","e"," ","t","o"," ","g","e","n","e","r","a","t","e"," ","v","i","d","e","o",".">>
MsgFetchPrefix ==
  <<"F","a","i","l","e","d"," ","t","o"," ","f","e","t","c","h"," ","v","i","d","e","o"," ","c","o","n","t","e","n","t",":"," ">>
StatusNotFound ==
  <<"N","o","t"," ","F","o","u","n","d">>
StatusUnavailable ==
  <<"S","e","r","v","i","c","e"," ","U","n","a","v","a","i","l","a","b","l","e">>
MsgFailedToFetch ==
  <<"F","a","i","l","e","d"," ","t","o"," ","f","e","t","c","h">>
MsgNoImageGenerated ==
  <<"N","o"," ","i","m","a","g","e"," ","g","e","n","e","r","a","t","e","d">>
MsgEmpty == << >>

\* String.prototype.includes
Includes(s, sub) ==
  \E k \in 0..(Len(s) - Len(sub)) : SubSeq(s, k + 1, k + Len(sub)) = sub

(***************************************************************************)
(* Values: thrown failures, operation snapshots, results.                  *)
(***************************************************************************)
Error(m) == [hasMessage |-> TRUE, message |-> m]
\* a thrown value without a message property (or null / undefined)
ErrNoMessage == [hasMessage |-> FALSE, message |-> MsgEmpty]

\* failures of a Gemini API call (generateVideos, getVideosOperation, fn)
ApiErrors ==
  { Error(MsgHttp503), Error(MsgDeadline), Error(NeedleUnavailable), Error(MsgRate),
    Error(MsgLower), Error(Msg400), Error(MsgEmpty), ErrNoMessage }

\* Response.statusText of a download that is not ok
StatusTexts == { StatusNotFound, StatusUnavailable, MsgHttp503, MsgEmpty }

\* failures of the fn of fetchVideoBlob: fetch rejects, or the response is not ok
FetchErrors ==
  { Error(MsgFailedToFetch) } \cup { Error(MsgFetchPrefix \o st) : st \in StatusTexts }

OpErrors == { ErrNoMessage, Error(MsgEmpty), Error(MsgQuota) }

Uris == { "", "uri" }

Operation(d, he, e, u) == [done |-> d, hasError |-> he, error |-> e, uri |-> u]

PendingOps ==
  { Operation(FALSE, FALSE, ErrNoMessage, u) : u \in Uris }

DoneOps ==
  { Operation(TRUE, FALSE, ErrNoMessage, u) : u \in Uris }
    \cup { Operation(TRUE, TRUE, e, u) : e \in OpErrors, u \in Uris }

Ops == PendingOps \cup DoneOps

NullOp == Operation(FALSE, FALSE, ErrNoMessage, "")

NoResult == [kind |-> "none", err |-> ErrNoMessage, op |-> NullOp, value |-> ""]
Return(v) == [kind |-> "return", err |-> ErrNoMessage, op |-> NullOp, value |-> v]
ReturnOp(o) == [kind |-> "return", err |-> ErrNoMessage, op |-> o, value |-> ""]
Throw(e) == [kind |-> "throw", err |-> e, op |-> NullOp, value |-> ""]

NoCalls == [submit |-> 0, check |-> 0, download |-> 0]

\* network latency of a remote call; lateness of a setTimeout callback.  A
\* whole session (startProcess) is explored with punctual timers and instant
\* answers: the functions it is made of are explored with both on their own.
Latencies == IF entry = "startProcess" THEN { 0 } ELSE { 0, MaxLatency }
Overshoots == IF entry = "startProcess" THEN { 0 } ELSE { 0, MaxOvershoot }

BaseDelays == { DefaultBaseDelay, FetchBaseDelay }

(***************************************************************************)
(* withRetry                                                               *)
(***************************************************************************)
\* error?.message || ""
errorMsg(error) == IF error.hasMessage THEN error.message ELSE MsgEmpty

isRetryable(msg) ==
  \/ Includes(msg, Needle503)
  \/ Includes(msg, NeedleDeadline)
  \/ Includes(msg, NeedleUnavailable)
  \/ Includes(msg, Needle429)

\* mutant: every failure is retried while retries remain
ShouldRetryAnyFailure(r, error) == r > 0

\* mutant: the retries left are not looked at
ShouldRetryForever(r, error) == isRetryable(errorMsg(error))

\* mutant: the last retry is never made
ShouldRetryOneLess(r, error) == r > 1 /\ isRetryable(errorMsg(error))

\* if (retries > 0 && isRetryable)
ShouldRetry(r, error) == r > 0 /\ isRetryable(errorMsg(error))

\* withRetry(fn, retries - 1, baseDelay * 2)
NextDelay(d) == d * 2

\* sleep(ms): the timer fires ms later, or later than that
Sleep(ms, over) == now' = now + ms + over

\* mutant: the text part is put before the binary part
RequestPartsTextFirst(ref) ==
  IF ref # "none" /\ ref # ""
    THEN << [kind |-> "text"], [kind |-> "inlineData"] >>
    ELSE << [kind |-> "text"] >>

\* generateTextImage: the parts built for one request; if (referenceImage)
RequestParts(ref) ==
  IF ref # "none" /\ ref # ""
    THEN << [kind |-> "inlineData"], [kind |-> "text"] >>
    ELSE << [kind |-> "text"] >>

\* a remote call made with credential key while process.env.API_KEY is env
CallWith(key, env) == [key |-> key, env |-> env]

\* generateTextVideo: the credential of `ai`, made by getAI() at entry and used
\* by every attempt of the submission
Client == IF pc = "retrySleep" THEN ai ELSE apiKey

\* the remote call of the wrapped function is issued
Issue(c) ==
  /\ net' = CASE c = "generateVideos" -> [net EXCEPT !.submit = @ + 1]
              [] c = "fetch" -> [net EXCEPT !.download = @ + 1]
              [] OTHER -> net
  /\ sent' = IF c = "generateContent"
               THEN Append(sent, RequestParts(referenceImage))
               ELSE sent
  /\ inFlight' = Append(inFlight, c)
  /\ lastCall' = CASE c = "generateVideos" -> CallWith(Client, apiKey)
                   [] c \in { "generateContent", "fetch" } -> CallWith(apiKey, apiKey)
                   [] OTHER -> lastCall
  /\ UNCHANGED jobs

\* the calls in flight once the answer to call c has arrived
RECURSIVE Answered(_, _)
Answered(calls_, c) ==
  IF calls_ = << >>
    THEN << >>
    ELSE IF Head(calls_) = c THEN Tail(calls_) ELSE << Head(calls_) >> \o Answered(Tail(calls_), c)

\* fn(): the wrapped function runs up to its remote call
InvokeFn(c) ==
  /\ calls' = calls + 1
  /\ Issue(c)

\* the outermost call withRetry(fn, r, d) up to the first await
CallWithRetry(c, r, d) ==
  /\ ctx' = c
  /\ retries' = r
  /\ baseDelay' = d
  /\ retries0' = r
  /\ baseDelay0' = d
  /\ sleeps' = << >>
  /\ failed' = FALSE
  /\ calls' = 1
  /\ Issue(c)
  /\ pc' = "fn"

WithRetryStart ==
  /\ entry = "withRetry"
  /\ pc = "start"
  /\ CallWithRetry("fn", retries0, baseDelay0)
  /\ UNCHANGED << outside, referenceImage, imageResult, received, transients, entry, apiKey, lastErr, now, startTime, ai, op, iters,
                  imageBase64, result >>

\* return await fn() returns
FnReturns ==
  /\ pc = "fn"
  /\ \/ /\ ctx = "fn"
        /\ result' = Return("value")
        /\ pc' = "done"
        /\ UNCHANGED << op, startTime, ai >>
     \/ /\ ctx = "fetch"
        /\ result' = Return("blob:video")
        /\ pc' = "done"
        /\ UNCHANGED << op, startTime, ai >>
     \/ /\ ctx = "generateVideos"
        /\ \E operation \in Ops : op' = operation
        /\ startTime' = now
        /\ ai' = apiKey
        /\ pc' = "pollTop"
        /\ UNCHANGED result
  /\ failed' = FALSE
  /\ inFlight' = Answered(inFlight, ctx)
  /\ jobs' = (IF ctx = "generateVideos" THEN jobs + 1 ELSE jobs)
  /\ UNCHANGED << outside, imgVars, transients, entry, apiKey, ctx, retries, baseDelay, retries0, baseDelay0, calls,
                  sleeps, lastErr, now, iters, net, lastCall, imageBase64 >>

\* catch (error): the attempt is repeated after a sleep, or error is thrown
Catch(error) ==
  /\ lastErr' = error
  /\ failed' = TRUE
  /\ IF ShouldRetry(retries, error)
       THEN /\ sleeps' = Append(sleeps, baseDelay)
            /\ pc' = "retrySleep"
            /\ UNCHANGED result
       ELSE /\ result' = Throw(error)
            /\ pc' = "done"
            /\ UNCHANGED sleeps

\* the jobs a failed call leaves at the service: a submission whose reply is
\* a transient failure may have been accepted all the same
JobsLeft(c, error) ==
  IF c = "generateVideos" /\ isRetryable(errorMsg(error)) THEN { 0, 1 } ELSE { 0 }

\* await fn() throws: the remote call failed
FnThrows ==
  /\ pc = "fn"
  /\ \E error \in (IF ctx = "fetch" THEN FetchErrors ELSE ApiErrors) :
       /\ Catch(error)
       /\ \E left \in JobsLeft(ctx, error) : jobs' = jobs + left
  /\ inFlight' = Answered(inFlight, ctx)
  /\ UNCHANGED << outside, imgVars, transients, entry, apiKey, ctx, retries, baseDelay, retries0, baseDelay0, calls,
                  now, startTime, ai, op, iters, net, lastCall, imageBase64 >>

\* await sleep(baseDelay) ends; return withRetry(fn, retries - 1, baseDelay * 2)
RetrySleepEnds ==
  /\ pc = "retrySleep"
  /\ \E over \in Overshoots : Sleep(baseDelay, over)
  /\ retries' = retries - 1
  /\ baseDelay' = NextDelay(baseDelay)
  /\ InvokeFn(ctx)
  /\ pc' = "fn"
  /\ UNCHANGED << outside, referenceImage, imageResult, received, transients, entry, apiKey, ctx, retries0, baseDelay0, sleeps, lastErr, failed,
                  startTime, ai, op, iters, imageBase64, result >>

(***************************************************************************)
(* generateStyleSuggestion and getRandomStyle                              *)
(***************************************************************************)
\* getRandomStyle: const styles = [ ... ]
styles ==
  << <<"f","o","r","m","e","d"," ","b","y"," ","f","l","u","f","f","y"," ","w","h","i","t","e"," ","c","l","o","u","d","s"," ","i","n"," ","a"," ","d","e","e","p"," ","b","l","u","e"," ","s","u","m","m","e","r"," ","s","k","y">>,
     <<"w","r","i","t","t","e","n"," ","i","n"," ","g","l","o","w","i","n","g"," ","c","o","n","s","t","e","l","l","a","t","i","o","n","s"," ","a","g","a","i","n","s","t"," ","a"," ","d","a","r","k"," ","n","e","b","u","l","a"," ","g","a","l","a","x","y">>,
     <<"a","r","r","a","n","g","e","d"," ","u","s","i","n","g"," ","c","o","l","o","r","f","u","l"," ","a","u","t","u","m","n"," ","l","e","a","v","e","s"," ","o","n"," ","w","e","t"," ","g","r","e","e","n"," ","g","r","a","s","s">>,
     <<"r","e","f","l","e","c","t","e","d"," ","i","n"," ","c","y","b","e","r","p","u","n","k"," ","n","e","o","n"," ","p","u","d","d","l","e","s"," ","o","n"," ","a"," ","r","a","i","n","y"," ","s","t","r","e","e","t">>,
     <<"d","r","a","w","n"," ","w","i","t","h"," ","l","a","t","t","e"," ","a","r","t"," ","f","o","a","m"," ","i","n"," ","a"," ","c","e","r","a","m","i","c"," ","c","o","f","f","e","e"," ","c","u","p">>,
     <<"g","l","o","w","i","n","g"," ","a","s"," ","a","n","c","i","e","n","t"," ","m","a","g","i","c","a","l"," ","r","u","n","e","s"," ","c","a","r","v","e","d"," ","i","n","t","o"," ","a"," ","d","a","r","k"," ","c","a","v","e"," ","w","a","l","l">>,
     <<"d","i","s","p","l","a","y","e","d"," ","o","n"," ","a"," ","f","u","t","u","r","i","s","t","i","c"," ","t","r","a","n","s","l","u","c","e","n","t"," ","h","o","l","o","g","r","a","p","h","i","c"," ","i","n","t","e","r","f","a","c","e">>,
     <<"s","c","u","l","p","t","e","d"," ","f","r","o","m"," ","m","e","l","t","i","n","g"," ","s","u","r","r","e","a","l","i","s","t"," ","g","o","l","d"," ","i","n"," ","a"," ","d","e","s","e","r","t"," ","l","a","n","d","s","c","a","p","e">>,
     <<"a","r","r","a","n","g","e","d"," ","w","i","t","h"," ","i","n","t","r","i","c","a","t","e"," ","m","e","c","h","a","n","i","c","a","l"," ","g","e","a","r","s"," ","a","n","d"," ","s","t","e","a","m","p","u","n","k"," ","m","a","c","h","i","n","e","r","y">>,
     <<"f","o","r","m","e","d"," ","b","y"," ","b","i","o","l","u","m","i","n","e","s","c","e","n","t"," ","j","e","l","l","y","f","i","s","h"," ","i","n"," ","t","h","e"," ","d","e","e","p"," ","o","c","e","a","n">>,
     <<"c","o","m","p","o","s","e","d"," ","o","f"," ","v","i","b","r","a","n","t"," ","c","o","l","o","r","f","u","l"," ","s","m","o","k","e"," ","s","w","i","r","l","i","n","g"," ","i","n"," ","a"," ","d","a","r","k"," ","r","o","o","m">>,
     <<"c","a","r","v","e","d"," ","i","n","t","o"," ","t","h","e"," ","b","a","r","k"," ","o","f"," ","a","n"," ","a","n","c","i","e","n","t"," ","m","o","s","s","y"," ","o","a","k"," ","t","r","e","e">>,
     <<"m","a","d","e"," ","o","f"," ","s","p","a","r","k","l","i","n","g"," ","d","i","a","m","o","n","d","s"," ","s","c","a","t","t","e","r","e","d"," ","o","n"," ","b","l","a","c","k"," ","v","e","l","v","e","t">> >>

\* mutant: the index runs past the end of the list for the largest draws
RandomIndexRounded(r) == (r * Len(styles) + RandSteps - 1) \div RandSteps

\* Math.floor(Math.random() * styles.length), for the draw r / RandSteps
RandomIndex(r) == (r * Len(styles)) \div RandSteps

\* styles[index]; undefined (here the empty string) past the end of the list
getRandomStyle(r) ==
  IF RandomIndex(r) + 1 \in DOMAIN styles THEN styles[RandomIndex(r) + 1] ELSE MsgEmpty

Whitespace == { " ", "\n", "\t" }

RECURSIVE TrimStart(_)
TrimStart(str) ==
  IF str # << >> /\ Head(str) \in Whitespace THEN TrimStart(Tail(str)) ELSE str

RECURSIVE TrimEnd(_)
TrimEnd(str) ==
  IF str # << >> /\ str[Len(str)] \in Whitespace
    THEN TrimEnd(SubSeq(str, 1, Len(str) - 1))
    ELSE str

\* mutant: the text is returned as received
TrimNothing(str) == str

\* String.prototype.trim
Trim(str) == TrimEnd(TrimStart(str))

\* response.text: undefined, or a string
Text(str) == [hasText |-> TRUE, text |-> str]
NoText == [hasText |-> FALSE, text |-> MsgEmpty]

ResponseTexts ==
  { NoText, Text(MsgEmpty), Text(<< " ", "\n" >>), Text(<< " ", "f", "o", "g", " " >>),
    Text(<< "n", "e", "o", "n", " ", "r", "a", "i", "n" >>) }

\* the request is sent: one generateContent call, outside withRetry
GenerateStyleSuggestionStart ==
  /\ entry = "generateStyleSuggestion"
  /\ pc = "start"
  /\ calls' = 1
  /\ pc' = "suggestion"
  /\ UNCHANGED << appVars, histVars, gifVars, styleVars, imgVars, transients, entry, apiKey, ctx, retries, baseDelay,
                  retries0, baseDelay0, sleeps, lastErr, failed, now, startTime, ai, op,
                  iters, net, lastCall, jobs, inFlight, imageBase64, result >>

\* return response.text?.trim() || getRandomStyle()
GenerateStyleSuggestionReturns ==
  /\ pc = "suggestion"
  /\ \E text \in ResponseTexts :
       /\ reply' = text
       /\ IF text.hasText /\ Trim(text.text) # MsgEmpty
            THEN style' = Trim(text.text) /\ UNCHANGED rnd
            ELSE \E r \in 0..(RandSteps - 1) : rnd' = r /\ style' = getRandomStyle(r)
  /\ failed' = FALSE
  /\ result' = Return("style")
  /\ pc' = "done"
  /\ UNCHANGED << appVars, histVars, gifVars, imgVars, transients, entry, apiKey, ctx, retries, baseDelay, retries0,
                  baseDelay0, calls, sleeps, lastErr, now, startTime, ai, op, iters, net, lastCall, jobs, inFlight,
                  imageBase64 >>

\* catch (error): return getRandomStyle()
GenerateStyleSuggestionThrows ==
  /\ pc = "suggestion"
  /\ \E error \in ApiErrors : lastErr' = error
  /\ failed' = TRUE
  /\ \E r \in 0..(RandSteps - 1) : rnd' = r /\ style' = getRandomStyle(r)
  /\ result' = Return("style")
  /\ pc' = "done"
  /\ UNCHANGED << appVars, histVars, gifVars, reply, imgVars, transients, entry, apiKey, ctx, retries, baseDelay, retries0,
                  baseDelay0, calls, sleeps, now, startTime, ai, op, iters, net, lastCall, jobs, inFlight,
                  imageBase64 >>

(***************************************************************************)
(* generateTextImage                                                       *)
(***************************************************************************)
\* a part of the response: part.inlineData, its data and its mimeType ("" when
\* the part declares none)
ResponsePart(inl, d, m) == [inline |-> inl, data |-> d, mimeType |-> m]

ResponseParts ==
  { ResponsePart(FALSE, "", ""),
    ResponsePart(TRUE, "bytes1", "image/jpeg"),
    ResponsePart(TRUE, "bytes2", ""),
    ResponsePart(TRUE, "", "image/png") }

\* response.candidates?.[0]?.content?.parts || []
Responses ==
  UNION { [1..n -> ResponseParts] : n \in 0..MaxParts }

NoImage == [data |-> "", mimeType |-> ""]

HasInline(parts) == \E k \in DOMAIN parts : parts[k].inline

\* mutant: the last part with inline data is taken
ExtractLastImage(parts) ==
  IF ~HasInline(parts)
    THEN NoImage
    ELSE LET k == CHOOSE n \in DOMAIN parts :
                    parts[n].inline /\ \A j \in DOMAIN parts : j > n => ~parts[j].inline
         IN  [data |-> parts[k].data,
              mimeType |-> IF parts[k].mimeType # "" THEN parts[k].mimeType ELSE "image/png"]

\* for (const part of parts) if (part.inlineData) return { data, mimeType || 'image/png' }
RECURSIVE ExtractImage(_)
ExtractImage(parts) ==
  IF parts = << >>
    THEN NoImage
    ELSE IF Head(parts).inline
           THEN [data |-> Head(parts).data,
                 mimeType |-> IF Head(parts).mimeType # ""
                                THEN Head(parts).mimeType
                                ELSE "image/png"]
           ELSE ExtractImage(Tail(parts))

GenerateTextImageStart ==
  /\ entry \in { "generateTextImage", "startProcess" }
  /\ pc = "start"
  /\ CallWithRetry("generateContent", DefaultRetries, DefaultBaseDelay)
  /\ UNCHANGED << outside, referenceImage, imageResult, received, transients, entry, apiKey, lastErr,
                  now, startTime, ai, op, iters, imageBase64, result >>

\* await ai.models.generateContent returns: the parts are scanned for an image
GenerateContentReturns ==
  /\ pc = "fn"
  /\ ctx = "generateContent"
  /\ \E parts \in Responses :
       /\ received' = (IF entry = "generateTextImage" THEN parts ELSE received)
       /\ IF HasInline(parts)
         THEN /\ imageResult' = ExtractImage(parts)
              /\ failed' = FALSE
              /\ IF entry = "startProcess"
                   THEN /\ imageBase64' = ExtractImage(parts).data
                        /\ pc' = "video"
                        /\ UNCHANGED result
                   ELSE /\ result' = Return("image")
                        /\ pc' = "done"
                        /\ UNCHANGED imageBase64
              /\ UNCHANGED << lastErr, sleeps >>
         ELSE /\ Catch(Error(MsgNoImageGenerated))
              /\ UNCHANGED << imageResult, imageBase64 >>
  /\ inFlight' = Answered(inFlight, ctx)
  /\ UNCHANGED << outside, referenceImage, sent, transients, entry, apiKey, ctx, retries,
                  baseDelay, retries0, baseDelay0, calls, now, startTime, ai, op, iters,
                  net, lastCall, jobs >>

\* the environment: process.env.API_KEY is set to another credential
KeyChanges ==
  /\ apiKey < MaxKeyChanges
  /\ apiKey' = apiKey + 1
  /\ UNCHANGED << outside, imgVars, transients, entry, ctx, retries, baseDelay, retries0,
                  baseDelay0, calls, sleeps, lastErr, failed, now, startTime, ai, op, iters,
                  net, lastCall, jobs, inFlight, imageBase64, result, pc >>

(***************************************************************************)
(* pollForVideo                                                            *)
(***************************************************************************)
\* mutant: a deadline failure of the status check is not recognised
PollTransientNoDeadline(msg) ==
  Includes(msg, Needle503) \/ Includes(msg, NeedleUnavailable)

\* mutant: every failure of the status check is waited out
PollTransientAnyFailure(msg) == TRUE

\* msg.includes("503") || msg.includes("Deadline expired") || msg.includes("UNAVAILABLE")
PollTransient(msg) ==
  \/ Includes(msg, Needle503)
  \/ Includes(msg, NeedleDeadline)
  \/ Includes(msg, NeedleUnavailable)

\* mutant: the ceiling is looked at one poll interval late
TimedOutLate(elapsed) == elapsed > MAX_WAIT_TIME + PollInterval

\* Date.now() - startTime > MAX_WAIT_TIME
TimedOut(elapsed) == elapsed > MAX_WAIT_TIME

\* mutant: the loop also ends on a snapshot that carries a result locator
PendingUntilLocator(o) == ~o.done /\ o.uri = ""

\* mutant: the loop does not look at done
PendingAlways(o) == TRUE

\* while (!op.done)
Pending(o) == ~o.done

PollStart ==
  /\ entry = "pollForVideo"
  /\ pc = "start"
  /\ startTime' = now
  /\ ai' = apiKey
  /\ pc' = "pollTop"
  /\ UNCHANGED << outside, imgVars, transients, entry, apiKey, ctx, retries, baseDelay, retries0, baseDelay0, calls,
                  sleeps, lastErr, failed, now, op, iters, net, lastCall, jobs, inFlight,
                  imageBase64, result >>

\* the loop condition, the timeout check and the start of the sleep
PollTop ==
  /\ pc = "pollTop"
  /\ IF ~Pending(op)
       THEN /\ IF entry = "pollForVideo"
                 THEN result' = ReturnOp(op) /\ pc' = "done"
                 ELSE pc' = "afterPoll" /\ UNCHANGED result
            /\ UNCHANGED iters
       ELSE IF TimedOut(now - startTime)
              THEN /\ result' = Throw(Error(MsgTimedOut))
                   /\ pc' = "done"
                   /\ UNCHANGED iters
              ELSE /\ iters' = iters + 1
                   /\ pc' = "pollSleep"
                   /\ UNCHANGED result
  /\ UNCHANGED << outside, imgVars, transients, entry, apiKey, ctx, retries, baseDelay, retries0, baseDelay0, calls,
                  sleeps, lastErr, failed, now, startTime, ai, op, net, lastCall, jobs, inFlight,
                  imageBase64 >>

\* await sleep(10000) ends; ai.operations.getVideosOperation is issued
PollSleepEnds ==
  /\ pc = "pollSleep"
  /\ \E over \in Overshoots : Sleep(PollInterval, over)
  /\ net' = [net EXCEPT !.check = @ + 1]
  /\ inFlight' = Append(inFlight, "getVideosOperation")
  /\ lastCall' = CallWith(ai, apiKey)
  /\ UNCHANGED jobs
  /\ pc' = "pollCheck"
  /\ UNCHANGED << outside, imgVars, transients, entry, apiKey, ctx, retries, baseDelay, retries0, baseDelay0, calls,
                  sleeps, lastErr, failed, startTime, ai, op, iters,
                  imageBase64, result >>

\* op = await ai.operations.getVideosOperation({ operation: op })
PollCheckReturns ==
  /\ pc = "pollCheck"
  /\ \E lat \in Latencies : now' = now + lat
  /\ \E snapshot \in Ops :
       /\ op' = snapshot
       /\ transients' = IF Pending(snapshot) THEN -1 ELSE transients
  /\ failed' = FALSE
  /\ inFlight' = Answered(inFlight, "getVideosOperation")
  /\ pc' = "pollTop"
  /\ UNCHANGED << outside, imgVars, entry, apiKey, ctx, retries, baseDelay, retries0, baseDelay0, calls,
                  sleeps, lastErr, startTime, ai, iters, net, lastCall, jobs, imageBase64, result >>

\* one more transient failure of the status check, counted up to MaxCounted
CountTransient(n) == IF n >= 0 /\ n < MaxCounted THEN n + 1 ELSE -1

\* the status check throws: the catch block of the loop
PollCheckThrows ==
  /\ pc = "pollCheck"
  /\ \E lat \in Latencies : now' = now + lat
  /\ \E e \in ApiErrors :
       /\ lastErr' = e
       /\ failed' = TRUE
       /\ IF PollTransient(errorMsg(e))
            THEN /\ transients' = CountTransient(transients)
                 /\ pc' = "pollTop"
                 /\ UNCHANGED result
            ELSE /\ result' = Throw(e)
                 /\ pc' = "done"
                 /\ UNCHANGED transients
  /\ inFlight' = Answered(inFlight, "getVideosOperation")
  /\ UNCHANGED << outside, imgVars, entry, apiKey, ctx, retries, baseDelay, retries0, baseDelay0, calls,
                  sleeps, startTime, ai, op, iters, net, lastCall, jobs, imageBase64 >>

(***************************************************************************)
(* generateTextVideo                                                       *)
(***************************************************************************)
\* mutant: the error of the snapshot is not looked at
HasVideoIgnoringError(o) == o.uri # ""

\* !op.error && op.response?.generatedVideos?.[0]?.video?.uri
HasVideo(o) == ~o.hasError /\ o.uri # ""

\* mutant: no fallback for an error without a message
OperationErrorMessageNoFallback(e) == e.message

\* op.error.message || "The video generation service encountered an internal error."
OperationErrorMessage(e) ==
  IF e.hasMessage /\ e.message # MsgEmpty THEN e.message ELSE MsgInternal

\* mutant: the seed image is not checked
MissingImageUnchecked(b) == FALSE

\* !imageBase64
MissingImage(b) == b = ""

\* if (!imageBase64) throw ...; otherwise the submission under the default policy
GenerateTextVideoStart ==
  /\ \/ entry = "generateTextVideo" /\ pc = "start"
     \/ entry = "startProcess" /\ pc = "video"
  /\ IF MissingImage(imageBase64)
       THEN /\ result' = Throw(Error(MsgNoImage))
            /\ pc' = "done"
            /\ UNCHANGED << ctx, retries, baseDelay, retries0, baseDelay0, calls,
                            sleeps, failed, net, lastCall, jobs, inFlight, sent >>
       ELSE /\ CallWithRetry("generateVideos", DefaultRetries, DefaultBaseDelay)
            /\ UNCHANGED result
  /\ ai' = apiKey
  /\ UNCHANGED << outside, referenceImage, imageResult, received, transients, entry, apiKey, lastErr,
                  now, startTime, op, iters, imageBase64 >>

\* the statements after const op = await pollForVideo(operation)
AfterPoll ==
  /\ pc = "afterPoll"
  /\ IF HasVideo(op)
       THEN /\ CallWithRetry("fetch", FetchRetries, FetchBaseDelay)
            /\ UNCHANGED result
       ELSE /\ result' = Throw(IF op.hasError
                                 THEN Error(OperationErrorMessage(op.error))
                                 ELSE Error(MsgUnable))
            /\ pc' = "done"
            /\ UNCHANGED << ctx, retries, baseDelay, retries0, baseDelay0, calls,
                            sleeps, failed, net, lastCall, jobs, inFlight, sent >>
  /\ UNCHANGED << outside, referenceImage, imageResult, received, transients, entry, apiKey, lastErr,
                  now, startTime, ai, op, iters, imageBase64 >>

(***************************************************************************)
(* Numbers of the page are IEEE 754 doubles.  A positive double is a       *)
(* record [bits, exp]: bits are the 53 bits of its significand, first bit  *)
(* 1, and its value is 1.b2...b53 * 2^exp.  Results are rounded to         *)
(* nearest, ties to even.                                                  *)
(***************************************************************************)
Significand == 53

\* the integer written by the bits, first bit most significant
RECURSIVE ToInt(_)
ToInt(bits) ==
  IF Len(bits) = 0
    THEN 0
    ELSE IF Len(bits) = 1
           THEN bits[1]
           ELSE LET half == Len(bits) \div 2
                IN  ToInt(SubSeq(bits, 1, half)) * 2 ^ (Len(bits) - half)
                      + ToInt(SubSeq(bits, half + 1, Len(bits)))

\* the lowest w bits of a natural number
Bits(n, w) == [k \in 1..w |-> (n \div 2 ^ (w - k)) % 2]

\* the bits of an integer n > 0 from its first 1
Binary(n) ==
  LET all == Bits(n, 31)
      first == CHOOSE k \in 1..31 : all[k] = 1 /\ \A j \in 1..(k - 1) : all[j] = 0
  IN  SubSeq(all, first, 31)

\* bits + 1, for bits that are not all 1
Increment(bits) ==
  LET zero == CHOOSE k \in DOMAIN bits :
                bits[k] = 0 /\ \A j \in (k + 1)..Len(bits) : bits[j] = 1
  IN  [k \in DOMAIN bits |-> IF k < zero THEN bits[k] ELSE IF k = zero THEN 1 ELSE 0]

\* the double nearest to 1.b2...bn * 2^e, of which more is left when sticky
RoundToDouble(bits, e, sticky) ==
  IF Len(bits) <= Significand
    THEN [bits |-> bits \o [k \in 1..(Significand - Len(bits)) |-> 0], exp |-> e]
    ELSE LET kept == SubSeq(bits, 1, Significand)
             half == bits[Significand + 1] = 1
             more == sticky \/ \E k \in (Significand + 2)..Len(bits) : bits[k] = 1
             up   == half /\ (more \/ kept[Significand] = 1)
         IN  IF ~up
               THEN [bits |-> kept, exp |-> e]
               ELSE IF \A k \in DOMAIN kept : kept[k] = 1
                      THEN [bits |-> << 1 >> \o [k \in 1..(Significand - 1) |-> 0],
                            exp |-> e + 1]
                      ELSE [bits |-> Increment(kept), exp |-> e]

\* n / d scaled by a power of two into [1, 2), and that power
RECURSIVE Normalise(_, _, _)
Normalise(n, d, e) ==
  IF n >= 2 * d
    THEN Normalise(n, 2 * d, e + 1)
    ELSE IF n < d THEN Normalise(2 * n, d, e - 1) ELSE [n |-> n, d |-> d, exp |-> e]

\* 2^k modulo d
RECURSIVE PowMod(_, _)
PowMod(k, d) ==
  IF k = 0
    THEN 1 % d
    ELSE LET h == PowMod(k \div 2, d)
         IN  (((h * h) % d) * (IF k % 2 = 1 THEN 2 ELSE 1)) % d

\* what is left of r / d after k bits of the quotient, for r < d
Remainder(r, d, k) == (r * PowMod(k, d)) % d

\* the next count bits of r / d for r < d, and whether a remainder is left
DivideBits(r, d, count) ==
  [bits |-> [k \in 1..count |-> IF 2 * Remainder(r, d, k - 1) >= d THEN 1 ELSE 0],
   inexact |-> Remainder(r, d, count) # 0]

\* n / d for integers n, d > 0
Divide(n, d) ==
  LET scaled == Normalise(n, d, 0)
      q == DivideBits(scaled.n - scaled.d, scaled.d, Significand)
  IN  RoundToDouble(<< 1 >> \o q.bits, scaled.exp, q.inexact)

\* the bits of a significand times an integer 0 < c < 2^12, in three parts
Part == 18

TimesBits(bits, c) ==
  LET low  == ToInt(SubSeq(bits, Significand - Part + 1, Significand)) * c
      mid  == ToInt(SubSeq(bits, Significand - 2 * Part + 1, Significand - Part)) * c
                + low \div 2 ^ Part
      high == ToInt(SubSeq(bits, 1, Significand - 2 * Part)) * c + mid \div 2 ^ Part
  IN  Binary(high) \o Bits(mid, Part) \o Bits(low, Part)

\* x * c for a double x and an integer 0 < c < 2^12
Times(x, c) ==
  LET product == TimesBits(x.bits, c)
  IN  RoundToDouble(product, x.exp + Len(product) - Significand, FALSE)

\* Math.floor(x) for a double x > 0 below 2^31
Floor(x) == IF x.exp < 0 THEN 0 ELSE ToInt(SubSeq(x.bits, 1, x.exp + 1))

(***************************************************************************)
(* createGifFromVideo                                                      *)
(***************************************************************************)
Fps == 10
DefaultDuration == 5
SeekTimeout == 1000

MsgGifLibrary == << "G", "I", "F", " ", "l", "i", "b", "r", "a", "r", "y", " ", "f", "a", "i", "l", "e", "d", " ", "t", "o", " ", "l", "o", "a", "d", " ", "c", "o", "r", "r", "e", "c", "t", "l", "y", ".", " ", "P", "l", "e", "a", "s", "e", " ", "r", "e", "f", "r", "e", "s", "h", " ", "t", "h", "e", " ", "p", "a", "g", "e", "." >>
MsgNoContext == << "C", "o", "u", "l", "d", " ", "n", "o", "t", " ", "g", "e", "t", " ", "c", "a", "n", "v", "a", "s", " ", "c", "o", "n", "t", "e", "x", "t" >>
MsgVideoLoadFailed == << "V", "i", "d", "e", "o", " ", "l", "o", "a", "d", " ", "f", "a", "i", "l", "e", "d" >>
MsgTainted == << "T", "h", "e", " ", "c", "a", "n", "v", "a", "s", " ", "h", "a", "s", " ", "b", "e", "e", "n", " ", "t", "a", "i", "n", "t", "e", "d", " ", "b", "y", " ", "c", "r", "o", "s", "s", "-", "o", "r", "i", "g", "i", "n", " ", "d", "a", "t", "a", "." >>
MsgEncode == << "I", "n", "v", "a", "l", "i", "d", " ", "t", "y", "p", "e", "d", " ", "a", "r", "r", "a", "y", " ", "l", "e", "n", "g", "t", "h" >>

\* video.duration is NaN until the duration is known
NaN == -1

\* video.duration of the videos handed in, in milliseconds
Durations ==
  { NaN, 0, DefaultDuration * 1000 } \cup { d \in 1..MaxDuration : d % 50 = 0 }

\* the state of the functions of the service
calling ==
  << styleVars, imgVars, ctx, retries, baseDelay, retries0, baseDelay0, calls, sleeps,
     lastErr, failed, startTime, ai, op, iters, transients, net, lastCall, inFlight, jobs,
     imageBase64 >>

\* the state of everything but the transcoding
service == << calling, appVars, histVars >>

\* videoWidth and videoHeight of the videos transcoded
VideoSizes == { << 1280, 720 >>, << 720, 1280 >>, << 400, 230 >> }

\* const width = 400
Width == 400

\* let height = Math.floor((video.videoHeight / video.videoWidth) * width);
\* if (height % 2 !== 0) height -= 1; for videoWidth > 0
Height(vw, vh, w) ==
  LET h == IF vh = 0 THEN 0 ELSE Floor(Times(Divide(vh, vw), w))
  IN  IF h % 2 # 0 THEN h - 1 ELSE h

\* no canvas is created yet
NoCanvas == [width |-> 0, height |-> 0]

\* mutant: the frame that is only begun at the end of the video is counted too
TotalFramesRoundedUp(d) == (d * Fps + 999) \div 1000

\* Math.floor(duration * fps), for a duration in milliseconds
TotalFrames(d) == (d * Fps) \div 1000

\* video.duration || 5
Duration(d) == IF d = NaN \/ d = 0 THEN DefaultDuration * 1000 ELSE d

\* const time = i / fps, in milliseconds
SeekTime(k) == (k * 1000) \div Fps

NoTimer == -1

\* mutant: the wait for the seek arms no timeout
SetNoTimeout(ms) == NoTimer

\* setTimeout(..., ms): the time the timer fires at
SetTimeout(ms) == now + ms

\* mutant: the listener of a wait that ended stays on the video
KeepEventListener(n) == n

\* video.removeEventListener('seeked', seekHandler), of the n listeners added
RemoveEventListener(n) == n - 1

\* resolve / reject of the promise returned: only the first call settles it
Settle(r) == result' = (IF result = NoResult THEN r ELSE result)

\* the head of the for loop at index k of n, and what follows the loop:
\* gif.finish(), resolve(new Blob([buffer], { type: 'image/gif' }))
LoopHead(k, n) ==
  IF k < n
    THEN /\ pc' = "yield"
         /\ UNCHANGED << finished, result >>
    ELSE /\ finished' = TRUE
         /\ Settle(Return("image/gif"))
         /\ pc' = "done"

\* typeof GIFEncoder check, document.createElement('video'), video.load()
CreateGifFromVideoStart ==
  /\ entry = "createGifFromVideo"
  /\ pc = "start"
  /\ \E loaded \in BOOLEAN :
       IF loaded
         THEN /\ \E d \in Durations : duration' = d
              /\ \E size \in VideoSizes :
                   /\ videoWidth' = size[1]
                   /\ videoHeight' = size[2]
              /\ \E s \in BOOLEAN : seekSettles' = s
              /\ videoState' = "loading"
              /\ pc' = "loading"
              /\ UNCHANGED result
         ELSE /\ Settle(Throw(Error(MsgGifLibrary)))
              /\ pc' = "aborted"
              /\ UNCHANGED << duration, videoWidth, videoHeight, seekSettles, videoState >>
  /\ UNCHANGED << service, entry, apiKey, now, totalFrames, width, height, canvas, i, seeks, frames, frameSizes, finished,
                  seeking, timer, listeners, lateFrames >>

\* video.onloadedmetadata, up to the first await of the loop
LoadedMetadata ==
  /\ pc = "loading"
  /\ videoState = "loading"
  /\ videoState' = "loaded"
  /\ width' = Width
  /\ height' = Height(videoWidth, videoHeight, Width)
  /\ canvas' = [width |-> width', height |-> height']
  /\ \E context \in BOOLEAN :
       IF context
         THEN /\ totalFrames' = TotalFrames(Duration(duration))
              /\ LoopHead(0, TotalFrames(Duration(duration)))
         ELSE /\ Settle(Throw(Error(MsgNoContext)))
              /\ pc' = "aborted"
              /\ UNCHANGED << totalFrames, finished >>
  /\ UNCHANGED << service, entry, apiKey, now, duration, videoWidth, videoHeight,
                  seekSettles, i, seeks, frames, frameSizes, seeking, timer, listeners,
                  lateFrames >>

\* video.onerror: the error event of the video element, while loading or later
VideoError ==
  /\ videoState \in { "loading", "loaded" }
  /\ videoState' = "error"
  /\ Settle(Throw(Error(MsgVideoLoadFailed)))
  /\ UNCHANGED << service, entry, apiKey, pc, now, duration, videoWidth, videoHeight, seekSettles, totalFrames, width, height, canvas, i,
                  seeks, frames, frameSizes, finished, seeking, timer, listeners, lateFrames >>

\* the setTimeout(r, 0) of the iteration fires: video.currentTime = time, and
\* the wait for the seek is set up (timer armed, seeked listener added)
YieldEnds ==
  /\ pc = "yield"
  /\ seeks' = Append(seeks, SeekTime(i))
  /\ seeking' = TRUE
  /\ timer' = SetTimeout(SeekTimeout)
  /\ listeners' = listeners + 1
  /\ pc' = "wait"
  /\ UNCHANGED << service, entry, apiKey, now, result, duration, videoWidth, videoHeight, seekSettles, videoState,
                  totalFrames, width, height, canvas, i, frames, frameSizes, finished, lateFrames >>

\* after the wait: drawImage, getImageData, quantize, applyPalette,
\* writeFrame, i++, and the loop head; or the catch block
DrawAndWrite ==
  \E outcome \in { "written", "draw", "encode" } :
    IF outcome = "written"
      THEN /\ frames' = Append(frames, i)
           /\ frameSizes' = frameSizes \cup { << width, height >> }
           /\ lateFrames' = (lateFrames \/ result # NoResult)
           /\ i' = i + 1
           /\ LoopHead(i + 1, totalFrames)
      ELSE /\ Settle(Throw(Error(IF outcome = "draw" THEN MsgTainted ELSE MsgEncode)))
           /\ pc' = "aborted"
           /\ UNCHANGED << frames, frameSizes, i, finished, lateFrames >>

\* the seeked event of the video; seekHandler when the wait listens for it
SeekedEvent ==
  /\ seeking
  /\ seekSettles
  /\ videoState = "loaded"
  /\ seeking' = FALSE
  /\ IF pc = "wait" /\ listeners > 0
       THEN /\ timer' = NoTimer
            /\ listeners' = RemoveEventListener(listeners)
            /\ DrawAndWrite
       ELSE UNCHANGED << timer, listeners, pc, frames, frameSizes, i, finished, result,
                         lateFrames >>
  /\ UNCHANGED << service, entry, apiKey, now, duration, videoWidth, videoHeight, seekSettles, videoState, totalFrames, width, height, canvas,
                  seeks >>

\* the timeout of the wait fires: the listener is removed, the loop goes on
SeekTimerFires ==
  /\ pc = "wait"
  /\ timer # NoTimer
  /\ now' = timer
  /\ timer' = NoTimer
  /\ listeners' = RemoveEventListener(listeners)
  /\ DrawAndWrite
  /\ UNCHANGED << service, entry, apiKey, duration, videoWidth, videoHeight, seekSettles, videoState, totalFrames, width, height, canvas,
                  seeks, seeking >>

(***************************************************************************)
(* App: startProcess and reset, with the service functions reduced to      *)
(* their outcome (a value returned or a failure thrown).                   *)
(***************************************************************************)
\* null; object URLs are numbered from 1 in the order they are made
Null == 0

\* an invocation of startProcess: the await it stands at, and the videoSrc of
\* the render whose form was submitted
Session(st, seen) == [stage |-> st, videoSrc |-> seen]

\* the invocation awaits generateTextImage or generateTextVideo
Unfinished(session) == session.stage \in { "image", "video" }

\* the state of everything but the App
page == << calling, gifVars, histVars, entry, apiKey, pc, now, result >>

\* startProcess from setState(GENERATING_IMAGE) to the await of generateTextImage
Begin(k, seen) ==
  /\ state' = "GENERATING_IMAGE"
  /\ revoked' = (IF seen # Null THEN revoked \cup { seen } ELSE revoked)
  /\ videoSrc' = Null
  /\ imageSrc' = Null
  /\ statusMessage' = "Designing"
  /\ sessions' = (IF k \in DOMAIN sessions
                    THEN [sessions EXCEPT ![k] = Session("image", seen)]
                    ELSE Append(sessions, Session("image", seen)))

\* the form is submitted: startProcess up to its first await
Submit ==
  /\ entry = "App"
  /\ state = "IDLE"
  /\ Len(sessions) < MaxSessions
  /\ \E aistudio \in BOOLEAN, keySelected \in BOOLEAN :
       IF aistudio
         THEN /\ sessions' = Append(sessions, Session("key", videoSrc))
              /\ UNCHANGED << state, videoSrc, imageSrc, statusMessage, showKeyDialog,
                              revoked >>
         ELSE IF keySelected
                THEN /\ Begin(Len(sessions) + 1, videoSrc)
                     /\ UNCHANGED showKeyDialog
                ELSE /\ showKeyDialog' = TRUE
                     /\ sessions' = Append(sessions, Session("ended", videoSrc))
                     /\ UNCHANGED << state, videoSrc, imageSrc, statusMessage, revoked >>
  /\ discarded' = FALSE
  /\ UNCHANGED << page, created >>

\* await window.aistudio.hasSelectedApiKey() returns
KeyChecked ==
  /\ \E k \in DOMAIN sessions :
       /\ sessions[k].stage = "key"
       /\ \E keySelected \in BOOLEAN :
            IF keySelected
              THEN /\ Begin(k, sessions[k].videoSrc)
                   /\ UNCHANGED showKeyDialog
              ELSE /\ showKeyDialog' = TRUE
                   /\ sessions' = [sessions EXCEPT ![k].stage = "ended"]
                   /\ UNCHANGED << state, videoSrc, imageSrc, statusMessage, revoked >>
  /\ UNCHANGED << page, created, discarded >>

\* await generateTextImage returns
ImageReturns ==
  /\ \E k \in DOMAIN sessions :
       /\ sessions[k].stage = "image"
       /\ sessions' = [sessions EXCEPT ![k].stage = "video"]
  /\ imageSrc' = 1
  /\ state' = "GENERATING_VIDEO"
  /\ statusMessage' = "Animating"
  /\ UNCHANGED << page, videoSrc, showKeyDialog, created, revoked, discarded >>

\* await generateTextVideo returns the object URL made by fetchVideoBlob
VideoReturns ==
  /\ \E k \in DOMAIN sessions :
       /\ sessions[k].stage = "video"
       /\ sessions' = [sessions EXCEPT ![k].stage = "ended"]
  /\ created' = created \cup { Cardinality(created) + 1 }
  /\ videoSrc' = Cardinality(created) + 1
  /\ state' = "PLAYING"
  /\ UNCHANGED << page, imageSrc, statusMessage, showKeyDialog, revoked, discarded >>

\* generateTextImage or generateTextVideo throws: the catch block
SessionThrows ==
  /\ \E k \in DOMAIN sessions :
       /\ sessions[k].stage \in { "image", "video" }
       /\ sessions' = [sessions EXCEPT ![k].stage = "ended"]
  /\ \E notFound \in BOOLEAN : showKeyDialog' = (showKeyDialog \/ notFound)
  /\ statusMessage' = "Failed"
  /\ state' = "ERROR"
  /\ UNCHANGED << page, videoSrc, imageSrc, created, revoked, discarded >>

\* reset: the header logo at any time, "Try Again", "Create New"
Reset ==
  /\ entry = "App"
  /\ state' = "IDLE"
  /\ videoSrc' = Null
  /\ imageSrc' = Null
  /\ discarded' = (discarded \/ \E k \in DOMAIN sessions : Unfinished(sessions[k]))
  /\ UNCHANGED << page, statusMessage, showKeyDialog, sessions, created, revoked >>

(***************************************************************************)
(* History: saveToHistory, getHistory, clearHistory, removeHistoryItem.    *)
(* Each is synchronous: one action per call.  localStorage keeps what      *)
(* setItem stored.  setItem can throw when the quota is exceeded: for a    *)
(* new item, or when there is no entry yet; items taken from the entry     *)
(* fit where the entry was.                                                *)
(***************************************************************************)
MAX_HISTORY_ITEMS == 20

UrlBlob == <<"b","l","o","b",":","h","t","t","p",":","/","/","a","/","1">>

UrlRemote == <<"h","t","t","p","s",":","/","/","a","/","v",".","m","p","4">>

VideoUrls == { UrlBlob, UrlRemote, << >> }

\* the arguments of saveToHistory: Omit<HistoryItem, 'id' | 'timestamp'>
Items ==
  { [ text |-> "HELLO", style |-> "neon", typographyPrompt |-> "bold",
      imageSrc |-> "data:image/png;base64,AAAA", videoUrl |-> u,
      mimeType |-> "image/png" ] : u \in VideoUrls }

NoItem ==
  [ text |-> "", style |-> "", typographyPrompt |-> "", imageSrc |-> "",
    videoUrl |-> << >>, mimeType |-> "" ]

\* `history_${Date.now()}_${Math.random().toString(36).substr(2, 9)}`
Id(time, random) == [time |-> time, random |-> random]

NoId == Id(0, 0)

NoCall == [name |-> "none", item |-> NoItem, id |-> NoId, ok |-> FALSE]

\* s.startsWith(prefix)
StartsWith(s, prefix) ==
  Len(s) >= Len(prefix) /\ SubSeq(s, 1, Len(prefix)) = prefix

BlobPrefix == <<"b","l","o","b",":">>

\* mutant: no locator is taken for a transient one
KeepVideoUrl(videoUrl) == videoUrl

\* videoUrl.startsWith('blob:') ? '' : videoUrl
StoredVideoUrl(videoUrl) == IF StartsWith(videoUrl, BlobPrefix) THEN << >> ELSE videoUrl

\* JSON.stringify of an array of items: the members of each object, strings
\* and a finite number, are written as they are
Stringify(items) ==
  [ k \in DOMAIN items |->
      LET item == items[k]
      IN  [ text |-> item.text, style |-> item.style,
            typographyPrompt |-> item.typographyPrompt, imageSrc |-> item.imageSrc,
            mimeType |-> item.mimeType, id |-> item.id, timestamp |-> item.timestamp,
            videoUrl |-> item.videoUrl ] ]

\* JSON.parse of what Stringify wrote
Parse(text) == [ k \in DOMAIN text |-> text[k] ]

\* getHistory: [] without an entry, else the items parsed, videoUrl || ''
getHistory ==
  IF ~stored
    THEN << >>
    ELSE LET parsed == Parse(storage)
         IN  [ k \in DOMAIN parsed |->
                 [ parsed[k] EXCEPT !.videoUrl = IF @ = << >> THEN << >> ELSE @ ] ]

\* array.slice(0, n)
Slice(array, n) == SubSeq(array, 1, IF Len(array) < n THEN Len(array) ELSE n)

\* mutant: the new item is put behind the others
Oldest(newItem, history) == history \o << newItem >>

\* [newItem, ...history]
Newest(newItem, history) == << newItem >> \o history

\* history.filter(item => item.id !== id)
Filter(history, id) == SelectSeq(history, LAMBDA item : item.id # id)

\* updatedHistory.map(({ videoUrl, ...rest }) => ({ ...rest, videoUrl: ... }))
StorageData(updatedHistory) ==
  [ k \in DOMAIN updatedHistory |->
      [ updatedHistory[k] EXCEPT !.videoUrl = StoredVideoUrl(@) ] ]

\* what a call costs of the events a behaviour may have
Cost(item, fresh, quota) ==
  (IF item.videoUrl # UrlBlob THEN 1 ELSE 0) + (IF fresh THEN 0 ELSE 1)
    + (IF quota = "none" THEN 0 ELSE 1)

\* everything but the history and the clock
besides == << calling, gifVars, appVars, entry, apiKey, pc, result >>

\* saveToHistory(item): fresh when Date.now() and Math.random() give an id not
\* given before; quota tells which of the setItem calls throw
SaveToHistory ==
  /\ entry = "history"
  /\ saves < MaxSaves
  /\ \E item \in Items, fresh \in BOOLEAN, quota \in { "none", "first", "both" } :
       /\ events + Cost(item, fresh, quota) <= MaxEvents
       /\ ~fresh => saves > 0
       /\ quota = "both" => ~stored
       /\ now' = (IF fresh THEN now + 1 ELSE now)
       /\ LET history == getHistory
              time == IF fresh THEN now + 1 ELSE now
              newItem == [ text |-> item.text, style |-> item.style,
                           typographyPrompt |-> item.typographyPrompt,
                           imageSrc |-> item.imageSrc, videoUrl |-> item.videoUrl,
                           mimeType |-> item.mimeType,
                           id |-> Id(time, 0), timestamp |-> time ]
              updatedHistory == Slice(Newest(newItem, history), MAX_HISTORY_ITEMS)
              trimmed == Slice(history, MAX_HISTORY_ITEMS \div 2)
          IN  /\ CASE quota = "none" ->
                        /\ stored' = TRUE
                        /\ storage' = Stringify(StorageData(updatedHistory))
                   [] quota = "first" ->
                        /\ stored' = TRUE
                        /\ storage' = Stringify(trimmed)
                   [] quota = "both" ->
                        UNCHANGED << stored, storage >>
              /\ call' = [ name |-> "saveToHistory", item |-> item, id |-> newItem.id,
                           ok |-> quota = "none" ]
       /\ events' = events + Cost(item, fresh, quota)
  /\ saves' = saves + 1
  /\ UNCHANGED besides

\* the ids removeHistoryItem is called with: of the newest, the second and
\* the oldest item stored, and one that no item has
Targets ==
  { storage[k].id : k \in { 1, 2, Len(storage) } \cap DOMAIN storage } \cup { NoId }

\* removeHistoryItem(id)
RemoveHistoryItem ==
  /\ entry = "history"
  /\ events < MaxEvents
  /\ \E id \in Targets, quota \in BOOLEAN :
       /\ quota => ~stored
       /\ IF quota
            THEN UNCHANGED << stored, storage >>
            ELSE /\ stored' = TRUE
                 /\ storage' = Stringify(Filter(getHistory, id))
       /\ call' = [ name |-> "removeHistoryItem", item |-> NoItem, id |-> id,
                    ok |-> ~quota ]
  /\ events' = events + 1
  /\ UNCHANGED << besides, now, saves >>

\* clearHistory()
ClearHistory ==
  /\ entry = "history"
  /\ events < MaxEvents
  /\ stored' = FALSE
  /\ storage' = << >>
  /\ call' = [ name |-> "clearHistory", item |-> NoItem, id |-> NoId, ok |-> TRUE ]
  /\ events' = events + 1
  /\ UNCHANGED << besides, now, saves >>

(***************************************************************************)
(* Specifications: one per function under execution.                       *)
(***************************************************************************)
InitCommon ==
  /\ pc = "start"
  /\ ctx = "none"
  /\ retries = 0
  /\ baseDelay = 0
  /\ calls = 0
  /\ sleeps = << >>
  /\ lastErr = ErrNoMessage
  /\ failed = FALSE
  /\ now = 0
  /\ startTime = 0
  /\ iters = 0
  /\ transients = 0
  /\ net = NoCalls
  /\ result = NoResult
  /\ sent = << >>
  /\ imageResult = NoImage
  /\ received = << >>
  /\ style = MsgEmpty
  /\ rnd = 0
  /\ reply = NoText
  /\ duration = 0
  /\ seekSettles = FALSE
  /\ videoState = "none"
  /\ totalFrames = 0
  /\ i = 0
  /\ seeks = << >>
  /\ frames = << >>
  /\ finished = FALSE
  /\ seeking = FALSE
  /\ timer = NoTimer
  /\ listeners = 0
  /\ lateFrames = FALSE
  /\ videoWidth = 0
  /\ videoHeight = 0
  /\ width = 0
  /\ height = 0
  /\ canvas = NoCanvas
  /\ frameSizes = { }
  /\ inFlight = << >>
  /\ jobs = 0
  /\ apiKey = 0
  /\ ai = 0
  /\ lastCall = CallWith(0, 0)
  /\ state = "IDLE"
  /\ videoSrc = Null
  /\ imageSrc = Null
  /\ statusMessage = ""
  /\ showKeyDialog = FALSE
  /\ sessions = << >>
  /\ created = { }
  /\ revoked = { }
  /\ discarded = FALSE
  /\ stored = FALSE
  /\ storage = << >>
  /\ saves = 0
  /\ events = 0
  /\ call = NoCall

\* withRetry(fn, retries, baseDelay) on its own
InitRetry ==
  /\ InitCommon
  /\ entry = "withRetry"
  /\ retries0 \in 0..MaxRetries
  /\ baseDelay0 \in BaseDelays
  /\ op = NullOp
  /\ imageBase64 = ""
  /\ referenceImage = "none"

NextRetry == WithRetryStart \/ FnReturns \/ FnThrows \/ RetrySleepEnds

SpecRetry == InitRetry /\ [][NextRetry]_vars

\* pollForVideo(operation) on its own
InitPoll ==
  /\ InitCommon
  /\ entry = "pollForVideo"
  /\ retries0 = 0
  /\ baseDelay0 = 0
  /\ op \in Ops
  /\ imageBase64 = ""
  /\ referenceImage = "none"

NextPoll ==
  PollStart \/ PollTop \/ PollSleepEnds \/ PollCheckReturns \/ PollCheckThrows

SpecPoll == InitPoll /\ [][NextPoll]_vars

\* pollForVideo while process.env.API_KEY is set anew
NextPollKeys ==
  PollStart \/ PollTop \/ PollSleepEnds \/ PollCheckReturns \/ PollCheckThrows \/ KeyChanges

SpecPollKeys == InitPoll /\ [][NextPollKeys]_vars

\* generateTextVideo(text, imageBase64, imageMimeType, promptStyle)
Init ==
  /\ InitCommon
  /\ entry = "generateTextVideo"
  /\ retries0 = 0
  /\ baseDelay0 = 0
  /\ op = NullOp
  /\ imageBase64 \in { "", "data" }
  /\ referenceImage = "none"

Next ==
  \/ GenerateTextVideoStart
  \/ FnReturns
  \/ FnThrows
  \/ RetrySleepEnds
  \/ PollTop
  \/ PollSleepEnds
  \/ PollCheckReturns
  \/ PollCheckThrows
  \/ AfterPoll

Spec == Init /\ [][Next]_vars

\* generateTextImage({ text, style, typographyPrompt, referenceImage })
ReferenceImages == { "none", "", "data:image/png;base64,AAAA" }

InitImage ==
  /\ InitCommon
  /\ entry = "generateTextImage"
  /\ retries0 = 0
  /\ baseDelay0 = 0
  /\ op = NullOp
  /\ imageBase64 = ""
  /\ referenceImage \in ReferenceImages

NextImage ==
  GenerateTextImageStart \/ GenerateContentReturns \/ FnThrows \/ RetrySleepEnds

SpecImage == InitImage /\ [][NextImage]_vars

\* generateStyleSuggestion(text)
InitStyle ==
  /\ InitCommon
  /\ entry = "generateStyleSuggestion"
  /\ retries0 = 0
  /\ baseDelay0 = 0
  /\ op = NullOp
  /\ imageBase64 = ""
  /\ referenceImage = "none"

NextStyle ==
  \/ GenerateStyleSuggestionStart
  \/ GenerateStyleSuggestionReturns
  \/ GenerateStyleSuggestionThrows

SpecStyle == InitStyle /\ [][NextStyle]_vars

\* startProcess from its try block on: generateTextImage, then generateTextVideo
\* with the image returned
InitSession ==
  /\ InitCommon
  /\ entry = "startProcess"
  /\ retries0 = 0
  /\ baseDelay0 = 0
  /\ op = NullOp
  /\ imageBase64 = ""
  /\ referenceImage \in ReferenceImages

NextSession ==
  \/ GenerateTextImageStart
  \/ GenerateContentReturns
  \/ GenerateTextVideoStart
  \/ FnReturns
  \/ FnThrows
  \/ RetrySleepEnds
  \/ PollTop
  \/ PollSleepEnds
  \/ PollCheckReturns
  \/ PollCheckThrows
  \/ AfterPoll

SpecSession == InitSession /\ [][NextSession]_vars

\* the App: the events of the page in any order
InitApp ==
  /\ InitCommon
  /\ entry = "App"
  /\ retries0 = 0
  /\ baseDelay0 = 0
  /\ op = NullOp
  /\ imageBase64 = ""
  /\ referenceImage = "none"

NextApp ==
  \/ Submit
  \/ KeyChecked
  \/ ImageReturns
  \/ VideoReturns
  \/ SessionThrows
  \/ Reset

SpecApp == InitApp /\ [][NextApp]_vars

\* createGifFromVideo(videoUrl)
InitGif ==
  /\ InitCommon
  /\ entry = "createGifFromVideo"
  /\ retries0 = 0
  /\ baseDelay0 = 0
  /\ op = NullOp
  /\ imageBase64 = ""
  /\ referenceImage = "none"

NextGif ==
  \/ CreateGifFromVideoStart
  \/ LoadedMetadata
  \/ VideoError
  \/ YieldEnds
  \/ SeekedEvent
  \/ SeekTimerFires

SpecGif == InitGif /\ [][NextGif]_vars

\* the timers of the page fire
SpecGifFair == SpecGif /\ WF_vars(YieldEnds) /\ WF_vars(SeekTimerFires)

InitHistory ==
  /\ InitCommon
  /\ entry = "history"
  /\ retries0 = 0
  /\ baseDelay0 = 0
  /\ op = NullOp
  /\ imageBase64 = ""
  /\ referenceImage = "none"

NextHistory ==
  \/ SaveToHistory
  \/ RemoveHistoryItem
  \/ ClearHistory

SpecHistory == InitHistory /\ [][NextHistory]_vars

(***************************************************************************)
(* Properties.                                                             *)
(***************************************************************************)
RECURSIVE Pow2(_)
Pow2(k) == IF k = 0 THEN 1 ELSE 2 * Pow2(k - 1)

RECURSIVE SumSeq(_)
SumSeq(q) == IF q = << >> THEN 0 ELSE Head(q) + SumSeq(Tail(q))

\* the classification of the retrier as the specification words it
ContainsOverloadMark(msg) ==
  \E needle \in { Needle503, NeedleDeadline, NeedleUnavailable, Needle429 } :
    Includes(msg, needle)

\* the classification of the poller's catch block
ContainsPollMark(msg) ==
  \E needle \in { Needle503, NeedleDeadline, NeedleUnavailable } :
    Includes(msg, needle)

MessageOf(e) == IF e.hasMessage THEN e.message ELSE MsgEmpty

\* C1: when withRetry gives up on a failure classified retryable (so every
\* attempt failed with such a failure), fn was invoked exactly retries+1 times
\* and the k-th wait was baseDelay * 2^(k-1): 3000, 6000, 12000 ms under the
\* default policy; every attempt but the first follows exactly one such wait,
\* which has elapsed.
C1_RetriesPlusOneAttemptsWithDoublingWaits ==
  /\ \A k \in DOMAIN sleeps : sleeps[k] = baseDelay0 * Pow2(k - 1)
  /\ pc = "fn" => calls = Len(sleeps) + 1 /\ now >= SumSeq(sleeps)
  /\ (result.kind = "throw" /\ ContainsOverloadMark(MessageOf(result.err)))
       => /\ calls = retries0 + 1
          /\ Len(sleeps) = retries0
          /\ (retries0 = 3 /\ baseDelay0 = 3000) => sleeps = << 3000, 6000, 12000 >>

C1_Witness ==
  /\ entry = "withRetry"
  /\ result.kind = "throw"
  /\ ContainsOverloadMark(MessageOf(result.err))
  /\ retries0 = 3
  /\ baseDelay0 = 3000
  /\ calls = 4
  /\ sleeps = << 3000, 6000, 12000 >>

\* C2: an attempt of withRetry that fails with a failure whose message holds
\* none of the four marks (or that has no message) ends the call at once with
\* that same failure: no sleep is started after it and fn is not invoked again,
\* whatever number of retries remains.
C2_NonRetryablePropagatesAtOnce ==
  (failed /\ ~ContainsOverloadMark(MessageOf(lastErr)))
    => /\ pc = "done"
       /\ result = Throw(lastErr)
       /\ Len(sleeps) = calls - 1
       /\ calls = retries0 - retries + 1

C2_Witness ==
  /\ entry = "withRetry"
  /\ pc = "done"
  /\ result = Throw(ErrNoMessage)
  /\ calls = 2
  /\ retries = 2
  /\ Len(sleeps) = 1

\* C3: pollForVideo returns only a snapshot with done = true; it leaves in no
\* other way than that return, the timeout error, or a status-check failure
\* that is not transient.
C3_ReturnsOnlyDone ==
  /\ result.kind = "return" => result.op.done /\ result.op = op
  /\ pc = "done" => result.kind \in { "return", "throw" }
  /\ result.kind = "throw"
       => \/ result.err = Error(MsgTimedOut)
          \/ failed /\ result.err = lastErr /\ ~ContainsPollMark(MessageOf(lastErr))

C3_Witness ==
  /\ entry = "pollForVideo"
  /\ result.kind = "return"
  /\ result.op.done
  /\ iters >= 2

\* C4: pollForVideo has ended within MAX_WAIT_TIME + PollInterval of its entry.
C4_EndsWithinCeilingPlusInterval ==
  (entry = "pollForVideo" /\ pc = "done")
    => now - startTime <= MAX_WAIT_TIME + PollInterval

\* C5: a status check that fails with a failure the poller classifies
\* transient leaves the poll running: the snapshot is kept, the loop goes on
\* to its next iteration, nothing is thrown and no retry budget changes; a poll
\* never ends by throwing such a failure.
C5_TransientCheckFailureContinues ==
  /\ [][ (pc = "pollCheck" /\ failed' /\ ContainsPollMark(MessageOf(lastErr')))
           => /\ pc' = "pollTop"
              /\ op' = op
              /\ result' = result
              /\ retries' = retries
              /\ calls' = calls ]_vars
  /\ [](result.kind = "throw" => ~ContainsPollMark(MessageOf(result.err)))

C5_Witness ==
  /\ entry = "pollForVideo"
  /\ pc = "pollSleep"
  /\ failed
  /\ ContainsPollMark(MessageOf(lastErr))
  /\ iters >= 3
  /\ result.kind = "none"

\* C6: a status check failing with any failure the retrier classifies
\* retryable does not end the poll.
C6_PollerUsesRetrierClassification ==
  (entry = "pollForVideo" /\ failed /\ ContainsOverloadMark(MessageOf(lastErr)))
    => result.kind # "throw"

\* C7: a status check that fails with a failure the poller does not classify
\* transient ends the poll with that same failure; no sleep and no status
\* check follow it.
C7_OtherCheckFailurePropagates ==
  (failed /\ ~ContainsPollMark(MessageOf(lastErr)))
    => /\ pc = "done"
       /\ result = Throw(lastErr)
       /\ net.check = iters

C7_Witness ==
  /\ entry = "pollForVideo"
  /\ pc = "done"
  /\ failed
  /\ result = Throw(Error(Msg400))
  /\ iters >= 2

\* C8: generateTextVideo issues a download, and returns a handle, only when
\* the final snapshot is done, carries a result locator and carries no error.
C8_HandleOnlyFromDoneLocatorNoError ==
  (result.kind = "return" \/ net.download > 0 \/ ctx = "fetch")
    => op.done /\ op.uri # "" /\ ~op.hasError

C8_Witness ==
  /\ entry = "generateTextVideo"
  /\ result = Return("blob:video")
  /\ net.download >= 1
  /\ op.done

\* C9: generateTextVideo with empty imageBase64 fails with the precondition
\* error and issues no submission, no status check and no download.
C9_EmptyImageNoNetworkCall ==
  imageBase64 = ""
    => /\ net = NoCalls
       /\ pc \in { "start", "done" }
       /\ pc = "done" => result = Throw(Error(MsgNoImage))

C9_Witness ==
  /\ entry = "generateTextVideo"
  /\ imageBase64 = ""
  /\ pc = "done"
  /\ result.kind = "throw"

\* C10: once the poller has returned a done snapshot without a usable video,
\* generateTextVideo fails with the message of the snapshot's error (the
\* internal-error message when that error has none), or with "Unable to
\* generate video." when the snapshot has neither error nor locator; no
\* download and no further submission or status check is made.
C10_DoneWithoutVideoFails ==
  (entry = "generateTextVideo" /\ pc = "done" /\ op.done /\ ~(~op.hasError /\ op.uri # ""))
    => /\ result.kind = "throw"
       /\ op.hasError
            => result.err = Error(IF op.error.hasMessage /\ op.error.message # MsgEmpty
                                    THEN op.error.message
                                    ELSE MsgInternal)
       /\ ~op.hasError => result.err = Error(MsgUnable)
       /\ net.download = 0
       /\ ctx = "generateVideos"
       /\ net.check = iters

C10_Witness ==
  /\ entry = "generateTextVideo"
  /\ pc = "done"
  /\ op.done
  /\ op.hasError
  /\ ~op.error.hasMessage
  /\ op.uri # ""
  /\ result = Throw(Error(MsgInternal))

\* C11: a download that fails is retried whatever the failure: when
\* fetchVideoBlob gives up it has made 3 attempts after waits of 2000 and
\* 4000 ms.
C11_EveryDownloadFailureRetried ==
  (ctx = "fetch" /\ result.kind = "throw")
    => calls = FetchRetries + 1 /\ sleeps = << 2000, 4000 >>

\* C18: when the only answer of the status checks is a done snapshot and k
\* checks before it failed transient, the poll has made exactly k+1 sleeps and
\* k+1 status checks and makes no more; with one transient failure the caller
\* gets its handle after 2 poll iterations.
C18_IterationsAreTransientsPlusOne ==
  /\ (op.done /\ net.check >= 1 /\ transients >= 0)
       => /\ iters = transients + 1
          /\ net.check = transients + 1
          /\ pc \notin { "pollSleep", "pollCheck" }
          /\ result.kind = "return" => result = Return("blob:video")
  /\ (result = Return("blob:video") /\ transients = 1) => iters = 2

C18_Witness ==
  /\ entry = "generateTextVideo"
  /\ result = Return("blob:video")
  /\ transients = 1
  /\ iters = 2
  /\ net.check = 2

\* C12: every generateContent request of generateTextImage, first attempt or
\* retry, carries exactly [binary part, text part] when a reference image is
\* given and exactly one text part when none is.
C12_RequestShape ==
  /\ Len(sent) = (IF entry = "generateTextImage" THEN calls ELSE 0)
  /\ \A k \in DOMAIN sent :
       IF referenceImage \in { "none", "" }
         THEN Len(sent[k]) = 1 /\ sent[k][1].kind = "text"
         ELSE /\ Len(sent[k]) = 2
              /\ sent[k][1].kind = "inlineData"
              /\ sent[k][2].kind = "text"

C12_Witness ==
  /\ entry = "generateTextImage"
  /\ referenceImage = "data:image/png;base64,AAAA"
  /\ Len(sent) = 3
  /\ sent[3] = << [kind |-> "inlineData"], [kind |-> "text"] >>

\* C13: when generateContent answers without any inline binary part,
\* generateTextImage throws "No image generated" at once: no sleep and no
\* further remote call follows that answer (one remote call in all when it was
\* the first), and no image is returned.
C13_NoImageNotRetried ==
  (failed /\ lastErr = Error(MsgNoImageGenerated))
    => /\ pc = "done"
       /\ result = Throw(Error(MsgNoImageGenerated))
       /\ imageResult = NoImage
       /\ Len(sent) = calls
       /\ Len(sleeps) = calls - 1
       /\ calls = DefaultRetries - retries + 1

C13_Witness ==
  /\ entry = "generateTextImage"
  /\ result = Throw(Error(MsgNoImageGenerated))
  /\ calls = 1
  /\ Len(sent) = 1
  /\ retries = 3

\* C14: generateStyleSuggestion never throws and makes one remote call with
\* no retry; when that call fails, or answers no text, an empty text or a text
\* of white space only, the string returned is one of the styles of
\* getRandomStyle.
C14_StyleSuggestionFallsBack ==
  /\ result.kind # "throw"
  /\ calls <= 1
  /\ sleeps = << >>
  /\ pc = "done"
       => /\ result = Return("style")
          /\ calls = 1
          /\ (failed \/ ~reply.hasText \/ \A k \in DOMAIN reply.text : reply.text[k] \in { " ", "\n", "\t" })
               => \E k \in DOMAIN styles : style = styles[k]

C14_Witness ==
  /\ entry = "generateStyleSuggestion"
  /\ pc = "done"
  /\ ~failed
  /\ reply = Text(<< " ", "\n" >>)
  /\ style = styles[13]

\* the frames to sample of the video under transcoding: floor(duration * 10),
\* with 5 seconds for a video of unknown or zero duration
SamplesDue ==
  IF duration \in { NaN, 0 } THEN 50 ELSE (duration * 10) \div 1000

\* C15: createGifFromVideo samples exactly floor(duration * 10) frames (50 for
\* 5 seconds), seeks to i/10 seconds for i = 0, 1, ... in increasing order,
\* writes one frame per sample in the same order, frame i before sample i+1
\* is sought, and finishes the encoder only after the last frame.
C15_SamplesInOrder ==
  /\ Len(seeks) <= SamplesDue
  /\ \A k \in DOMAIN seeks : seeks[k] = (k - 1) * 100
  /\ \A k \in DOMAIN seeks : k > 1 => seeks[k] > seeks[k - 1]
  /\ \A k \in DOMAIN frames : frames[k] = k - 1
  /\ Len(frames) <= Len(seeks)
  /\ Len(seeks) <= Len(frames) + 1
  /\ finished => Len(frames) = SamplesDue /\ Len(seeks) = SamplesDue
  /\ (finished /\ duration = 5000) => Len(frames) = 50
  /\ pc = "done" => finished

C15_Witness ==
  /\ entry = "createGifFromVideo"
  /\ duration = 5000
  /\ finished
  /\ Len(frames) = 50
  /\ seeks[50] = 4900
  /\ result = Return("image/gif")

\* C16: the wait for a seek never hangs: when no seeked event ends it, the
\* timeout ends it 1000 ms after it began and the frame is drawn and written;
\* with a video whose seeks never settle, and no failure of drawing or
\* encoding, the transcoding ends with all floor(duration * 10) frames written.
C16_SeekWaitEnds ==
  /\ (pc = "wait") ~> (pc # "wait")
  /\ (pc = "wait" /\ ~seekSettles)
       ~> (pc = "aborted" \/ (pc = "done" /\ finished /\ Len(frames) = SamplesDue))
  /\ []((~seekSettles /\ pc # "aborted") => now = Len(frames) * 1000)

C16_Witness ==
  /\ entry = "createGifFromVideo"
  /\ ~seekSettles
  /\ videoState = "loaded"
  /\ pc = "done"
  /\ Len(frames) = 50
  /\ now = 50000
  /\ result = Return("image/gif")

\* C17: the promise of createGifFromVideo settles once, with a blob made
\* after every frame was written and the encoder finished, or with one error;
\* once a failure of loading, drawing or encoding has settled it, no later
\* frame is processed and no blob is made.
C17_FailureAbortsTranscoding ==
  /\ result.kind = "return"
       => /\ result = Return("image/gif")
          /\ finished
          /\ Len(frames) = SamplesDue
  /\ result.kind = "throw"
       => /\ ~lateFrames
          /\ ~finished
          /\ pc \notin { "yield", "wait" }

\* a remote call of kind c is issued and not yet answered
Outstanding(c) == \E k \in DOMAIN inFlight : inFlight[k] = c

\* C19: in one session the remote calls are strictly ordered: the video is
\* submitted only after the image call has returned an image, the status is
\* checked only after a submission has returned, never while another check
\* is unanswered, and the download is issued only after the poller returned.
C19_SessionCallsInOrder ==
  /\ Len(inFlight) <= 1
  /\ net.submit > 0
       => /\ Len(sent) >= 1
          /\ ~Outstanding("generateContent")
          /\ imageResult.data # ""
          /\ imageBase64 = imageResult.data
  /\ net.check > 0
       => /\ net.submit >= 1
          /\ ~Outstanding("generateVideos")
  /\ net.download > 0
       => /\ net.submit >= 1
          /\ op.done
          /\ ~Outstanding("getVideosOperation")
          /\ ~Outstanding("generateVideos")

C19_Witness ==
  /\ entry = "startProcess"
  /\ pc = "done"
  /\ result = Return("blob:video")
  /\ Len(sent) >= 2
  /\ net.submit >= 2
  /\ net.check >= 2
  /\ net.download >= 2
  /\ inFlight = << >>

\* C20: the object URLs of finished sessions do not pile up: every one that
\* was made and is not the videoSrc on display has been passed to
\* URL.revokeObjectURL.
C20_HandlesReleased ==
  \A h \in created : h # videoSrc => h \in revoked

\* C21: once reset was invoked while a session was outstanding, the later
\* end of that session (a value or a failure) changes nothing of what the App
\* shows: the App stays IDLE, with no image and no video, until the next submit.
C21_DiscardedSessionChangesNothing ==
  discarded => state = "IDLE" /\ imageSrc = Null /\ videoSrc = Null

\* C22 as stated: no status check is issued once more than 300000 ms have
\* passed since the entry of pollForVideo.
C22_NoCheckPastCeiling ==
  pc = "pollCheck" => now - startTime <= 300000

\* C22, amended: an iteration of the poll loop that begins more than 300000 ms
\* after entry fails with the timeout error and issues no status check: every
\* sleep, and so every status check, belongs to an iteration begun within the
\* ceiling (the check itself is issued one sleep later, past the ceiling for
\* the last iteration); the timeout error is thrown for a pending operation
\* only, past the ceiling.
C22_IterationPastCeilingTimesOut ==
  /\ pc = "pollSleep" => now - startTime <= 300000
  /\ pc = "pollCheck" => now - startTime <= 300000 + PollInterval + MaxOvershoot
  /\ result = Throw(Error(MsgTimedOut))
       => /\ now - startTime > 300000
          /\ ~op.done
          /\ pc = "done"
          /\ inFlight = << >>

C22_Witness ==
  /\ entry = "pollForVideo"
  /\ result = Throw(Error(MsgTimedOut))
  /\ net.check >= 30

\* C23: the operation seen by the poller only moves towards done: once the
\* handle handed in or a status check reports done, pollForVideo begins no
\* sleep and issues no status check, and the snapshot stays as it is; an
\* operation done at entry is returned with no status check at all.
C23_DoneIsFinal ==
  /\ [](op.done => pc \notin { "pollSleep", "pollCheck" } /\ ~Outstanding("getVideosOperation"))
  /\ [][ op.done => /\ op' = op
                    /\ iters' = iters
                    /\ net'.check = net.check
                    /\ now' = now ]_vars
  /\ []((pc = "done" /\ result.kind = "return" /\ iters = 0)
          => net.check = 0 /\ result = ReturnOp(op))

C23_Witness ==
  /\ entry = "pollForVideo"
  /\ pc = "done"
  /\ result = ReturnOp(op)
  /\ op.done
  /\ op.hasError
  /\ net.check = 3

\* C24: the video submission is at-least-once: a generateTextVideo call with
\* an image issues between 1 and 4 submissions, each one after the first only
\* after a retryable failure of the one before, and none after one succeeded;
\* a submission accepted by the service whose reply was a transient failure
\* leaves a job behind, so the service can hold more jobs than the one
\* operation the poller follows.
C24_SubmissionAtLeastOnce ==
  /\ [](net.submit <= 4 /\ jobs <= net.submit)
  /\ []((pc # "start" /\ imageBase64 # "") => net.submit >= 1)
  /\ [](imageBase64 = "" => net.submit = 0)
  /\ [](net.check + net.download > 0 => jobs >= 1)
  /\ [][ net'.submit # net.submit
           => /\ net'.submit = net.submit + 1
              /\ net.check = 0 /\ net.download = 0
              /\ net.submit >= 1
                   => /\ pc = "retrySleep"
                      /\ failed
                      /\ ContainsOverloadMark(MessageOf(lastErr)) ]_vars

C24_Witness ==
  /\ entry = "generateTextVideo"
  /\ jobs = 2
  /\ net.submit = 2
  /\ net.check >= 1
  /\ result = Return("blob:video")

\* C25: every remote call is made with the credential that process.env.API_KEY
\* holds when the call is issued, so a credential set while a session is
\* polling is the one of the next status check.
C25_CredentialReadPerCall ==
  lastCall.key = lastCall.env

\* C26: the image returned by generateTextImage is the first part of the
\* response, in response order, that carries inline data; later parts are not
\* looked at; its media type is the one the part declares, "image/png" when
\* it declares none; a call that returns returns one such image.
C26_FirstInlinePartIsReturned ==
  /\ result = Return("image")
       => \E k \in DOMAIN received :
            /\ received[k].inline
            /\ \A j \in 1..(k - 1) : ~received[j].inline
            /\ imageResult.data = received[k].data
            /\ imageResult.mimeType =
                 (IF received[k].mimeType = "" THEN "image/png" ELSE received[k].mimeType)
  /\ result.kind # "return" => imageResult = [data |-> "", mimeType |-> ""]

C26_Witness ==
  /\ entry = "generateTextImage"
  /\ result = Return("image")
  /\ Len(received) = 2
  /\ received[1].inline /\ received[1].mimeType = ""
  /\ received[2].inline /\ received[2].data # received[1].data
  /\ imageResult = [data |-> received[1].data, mimeType |-> "image/png"]

\* C27: once the canvas of createGifFromVideo is set up, for a video with
\* videoWidth > 0, the output width is 400, the output height is
\* floor(videoHeight * 400 / videoWidth) rounded down to the nearest even
\* number, and the canvas and every frame written have that width and height.
C27_OutputDimensions ==
  (canvas # NoCanvas /\ videoWidth > 0)
    => /\ width = 400
       /\ height % 2 = 0
       /\ height = ((videoHeight * 400) \div videoWidth)
                     - (((videoHeight * 400) \div videoWidth) % 2)
       /\ canvas = [width |-> width, height |-> height]
       /\ frameSizes \subseteq { << width, height >> }

\* C28: the stored history never has more than 20 items; a saveToHistory
\* that stores puts the new item at index 0 and keeps the items stored before
\* in their order, without the oldest when there were 20; removeHistoryItem
\* leaves exactly the items whose id is not the given one, in their order.
C28_BoundedNewestFirst ==
  /\ [](Len(storage) <= 20)
  /\ [][ (call'.name = "saveToHistory" /\ call'.ok)
          => /\ Len(storage') = (IF Len(storage) < 20 THEN Len(storage) + 1 ELSE 20)
             /\ storage'[1].id = call'.id
             /\ \A k \in 2..Len(storage') : storage'[k] = storage[k - 1] ]_vars
  /\ [][ call'.name = "removeHistoryItem"
          => storage' = SelectSeq(storage, LAMBDA item : item.id # call'.id) ]_vars

\* C28 witness: the 22nd save stored its item in front of 20 items and the
\* oldest of them is gone; an item between two others was removed before.
C28_Witness ==
  /\ call.name = "saveToHistory"
  /\ call.ok
  /\ saves = 22
  /\ Len(storage) = 20
  /\ storage[1].id = call.id
  /\ storage[20].id.time = 2
  /\ \E k \in 1..19 : storage[k].id.time = storage[k + 1].id.time + 2

\* C29: no stored item has a videoUrl that starts with "blob:"; a
\* saveToHistory that stores writes the empty string for such a videoUrl and
\* every other field of the item as it was given.
C29_NoTransientLocatorStored ==
  /\ [](\A k \in DOMAIN storage :
          ~(/\ Len(storage[k].videoUrl) >= 5
            /\ SubSeq(storage[k].videoUrl, 1, 5) = <<"b","l","o","b",":">>))
  /\ [][ (call'.name = "saveToHistory" /\ call'.ok)
          => /\ storage'[1].text = call'.item.text
             /\ storage'[1].style = call'.item.style
             /\ storage'[1].typographyPrompt = call'.item.typographyPrompt
             /\ storage'[1].imageSrc = call'.item.imageSrc
             /\ storage'[1].mimeType = call'.item.mimeType
             /\ storage'[1].videoUrl
                  = (IF Len(call'.item.videoUrl) >= 5
                          /\ SubSeq(call'.item.videoUrl, 1, 5) = <<"b","l","o","b",":">>
                       THEN << >>
                       ELSE call'.item.videoUrl) ]_vars

\* C29 witness: an item given with a blob: videoUrl is stored with the empty
\* string, after an item whose remote videoUrl is stored as it was given.
C29_Witness ==
  /\ call.name = "saveToHistory"
  /\ call.ok
  /\ call.item.videoUrl = UrlBlob
  /\ Len(storage) >= 2
  /\ storage[1].videoUrl = << >>
  /\ storage[1].imageSrc = call.item.imageSrc
  /\ \E k \in DOMAIN storage : storage[k].videoUrl = UrlRemote

\* C30: withRetry invokes fn at most retries+1 times; fn is invoked again
\* only after a failed attempt and the sleep that follows it, never after an
\* attempt succeeded, whose value is the result; the failure withRetry ends
\* with is the one of the attempt just made.
C30_AttemptsBoundedLastFailurePropagates ==
  /\ [](calls <= retries0 + 1)
  /\ []((result.kind = "return") => (~failed /\ pc = "done" /\ inFlight = << >>))
  /\ [][ calls' # calls
          => /\ calls' = calls + 1
             /\ result = NoResult
             /\ calls >= 1 => (failed /\ pc = "retrySleep" /\ retries > 0) ]_vars
  /\ [][ result' # result
          => /\ result = NoResult
             /\ pc = "fn"
             /\ pc' = "done"
             /\ calls' = calls
             /\ result'.kind = "throw" => (failed' /\ result'.err = lastErr') ]_vars

\* C30 witness: the third of four attempts allowed fails with a failure that
\* is not retried, after two that were, and that failure ends the call.
C30_Witness ==
  /\ entry = "withRetry"
  /\ retries0 = 3
  /\ calls = 3
  /\ retries = 1
  /\ Len(sleeps) = 2
  /\ failed
  /\ lastErr = ErrNoMessage
  /\ result = Throw(ErrNoMessage)

\* C31: at most one invocation of startProcess is between its first remote
\* call and its end: no invocation awaits generateTextImage or
\* generateTextVideo while an earlier one still does.
C31_OneSessionInFlight ==
  \A j, k \in DOMAIN sessions :
    (sessions[j].stage \in { "image", "video" } /\ sessions[k].stage \in { "image", "video" })
      => j = k

\* C32: the App holds a video handle exactly when its state is PLAYING:
\* videoSrc is not null in PLAYING and is null in IDLE, GENERATING_IMAGE,
\* GENERATING_VIDEO and ERROR.
C32_VideoHeldExactlyWhenPlaying ==
  (videoSrc # Null) <=> (state = "PLAYING")

\* C33: a wait for a seek is ended once, by the seeked handler or by the
\* 1000 ms timer; the one that ends it clears the timer and removes the
\* listener, so the video has one seeked listener and one timer pending
\* during a wait, and neither outside a wait; every wait ended is followed
\* by one pass of drawing, and the timer fires only to end the wait it was
\* armed for.
C33_WaitEndsOnceAndCleansUp ==
  /\ [](listeners \in { 0, 1 })
  /\ []((pc = "wait") => (listeners = 1 /\ timer # NoTimer /\ Len(seeks) = Len(frames) + 1))
  /\ []((pc # "wait") => (listeners = 0 /\ timer = NoTimer))
  /\ []((pc \in { "yield", "done" }) => Len(seeks) = Len(frames))
  /\ [][ (pc = "wait" /\ pc' # "wait")
          => /\ timer' = NoTimer
             /\ listeners' = 0
             /\ seeks' = seeks
             /\ Len(frames') <= Len(frames) + 1
             /\ now' \in { now, timer } ]_vars
  /\ [][ now' # now => (pc = "wait" /\ now' = timer /\ pc' # "wait") ]_vars

\* C33 witness: of three waits ended, one was ended by its timer and two by
\* the seeked handler; no listener and no timer is left before the next wait.
C33_Witness ==
  /\ entry = "createGifFromVideo"
  /\ seekSettles
  /\ pc = "yield"
  /\ Len(frames) = 3
  /\ Len(seeks) = 3
  /\ now = 1000
  /\ listeners = 0
  /\ timer = NoTimer

====
